---- MODULE Spec2Model ----
(***************************************************************************)
(* Model of the MCTS move-selection engine of src/ai.py (class Node,       *)
(* class AI, the module-level BUDGET and saved_root).                      *)
(*                                                                         *)
(* The rules engine (module game: Game, BLACK, WHITE, EMPTY) is not part   *)
(* of src/; it is modelled from the oracle contract of spec.md section 6   *)
(* as a connect-in-a-row game on a single row of cells.                    *)
(*                                                                         *)
(* The tree is an arena: nodes is a sequence of node records, a node is    *)
(* its index, parent = 0 is Python's None.  copy.deepcopy(best_child)      *)
(* (line 82) copies the best child together with everything reachable      *)
(* from it, which through the parent attribute is the whole tree; the      *)
(* original tree is only referenced by the AI object that is dropped when  *)
(* the decision is over, so the copy is represented by the same arena      *)
(* indices.                                                                *)
(***************************************************************************)
EXTENDS Integers, Sequences, FiniteSets, TLC

(***************************************************************************)
(* Bounds of the model.                                                    *)
(***************************************************************************)
MaxBudget == 5
MaxDecisions == 2
BoardLen == 5

(***************************************************************************)
(* Numbers.  math.inf is a reserved integer; finite scores are fixed-point *)
(* with SCALE digits.  For a parent with at most 15 visits the fixed-point *)
(* order of two sibling scores (c in {0,1}) is the order of the floats.    *)
(***************************************************************************)
inf == 1000000000
SCALE == 10000
SENTINEL == -1

BLACK == "b"
WHITE == "w"
EMPTY == "."
None == "None"
Players == {BLACK, WHITE}

\* round(ln(n) * SCALE) for n = 1..30
LnTable ==
  <<0, 6931, 10986, 13863, 16094, 17918, 19459, 20794, 21972, 23026,
    23979, 24849, 25649, 26391, 27081, 27726, 28332, 28904, 29444, 29957,
    30445, 30910, 31355, 31781, 32189, 32581, 32958, 33322, 33673, 34012>>

log(n) == LnTable[n]

RECURSIVE SqrtBisect(_, _, _)
SqrtBisect(x, lo, hi) ==
  IF lo >= hi THEN lo
  ELSE LET mid == (lo + hi + 1) \div 2
       IN IF mid * mid <= x THEN SqrtBisect(x, mid, hi)
                            ELSE SqrtBisect(x, lo, mid - 1)

\* floor of the square root of x
sqrt(x) == SqrtBisect(x, 0, 32768)

\* float addition of a finite amount to a possibly infinite number
AddWins(w, r) == IF w = inf \/ w = -inf THEN w ELSE w + r

(***************************************************************************)
(* The game oracle (Game of module game), modelled from spec.md section 6. *)
(* A state is [player, grid]; an action is a cell index.                   *)
(***************************************************************************)
WinLen == 2

Grids == [1..BoardLen -> {BLACK, WHITE, EMPTY}]

HasRun(grid, p) ==
  \E i \in 1..(Len(grid) - WinLen + 1) : \A j \in 0..(WinLen - 1) : grid[i + j] = p

GameWinner(grid) ==
  IF HasRun(grid, BLACK) THEN BLACK
  ELSE IF HasRun(grid, WHITE) THEN WHITE
  ELSE EMPTY

EmptyCells(grid) == {i \in 1..Len(grid) : grid[i] = EMPTY}

game_over(grid) == GameWinner(grid) # EMPTY \/ EmptyCells(grid) = {}

RECURSIVE SortedSeq(_)
SortedSeq(S) ==
  IF S = {} THEN << >>
  ELSE LET m == CHOOSE x \in S : \A y \in S : x <= y
       IN <<m>> \o SortedSeq(S \ {m})

\* legal_actions: the empty cells in ascending order
get_actions(grid) == SortedSeq(EmptyCells(grid))

Opponent(p) == IF p = WHITE THEN BLACK ELSE WHITE

\* apply: the mover's stone goes on the cell and the turn passes
place(state, a) ==
  [player |-> Opponent(state.player), grid |-> [state.grid EXCEPT ![a] = state.player]]

\* the ways a random playout from state can end: the winner the oracle
\* records and the number of rand_move samples that were placed
RECURSIVE Playouts(_)
Playouts(state) ==
  IF game_over(state.grid) THEN {[winner |-> GameWinner(state.grid), samples |-> 0]}
  ELSE UNION {{[winner |-> r.winner, samples |-> r.samples + 1] :
                 r \in Playouts(place(state, a))} : a \in EmptyCells(state.grid)}

(***************************************************************************)
(* class Node                                                              *)
(***************************************************************************)
Node(state, actions, parent) ==
  [state |-> state,
   num_wins |-> 0,
   num_visits |-> 0,
   parent |-> parent,
   children |-> << >>,
   untried_actions |-> actions,
   is_terminal |-> game_over(state.grid),
   is_minimax_terminal |-> FALSE,
   minimax_winner |-> None]

(***************************************************************************)
(* AI.best_child                                                           *)
(***************************************************************************)
EmptyMap == [x \in {} |-> 0]

\* line 142; an infinite num_wins makes the whole score infinite
ucb_value(num_wins, num_visits, log_parent_visits, c) ==
  IF num_wins = inf \/ num_wins = -inf THEN num_wins
  ELSE (num_wins * SCALE) \div num_visits
       + c * sqrt((2 * log_parent_visits * SCALE) \div num_visits)

\* best_child_loop with >= for > on line 143: a tie goes to the last child
RECURSIVE best_child_loop_last(_, _, _, _, _)
best_child_loop_last(ns, n, c, i, acc) ==
  IF i > Len(ns[n].children) \/ acc.err # None THEN acc
  ELSE LET action == ns[n].children[i][1]
           child_node == ns[n].children[i][2]
       IN IF ns[child_node].num_visits = 0
          THEN [acc EXCEPT !.err = "ZeroDivisionError"]
          ELSE LET u == ucb_value(ns[child_node].num_wins, ns[child_node].num_visits,
                                  log(ns[n].num_visits), c)
                   better == u >= acc.best_ucb_value
                   acc1 == IF better
                           THEN [acc EXCEPT !.best_ucb_value = u,
                                            !.best_child_node = child_node,
                                            !.best_action = action]
                           ELSE acc
                   acc2 == IF c = 0
                           THEN [acc1 EXCEPT !.action_ucb_table =
                                   [x \in (DOMAIN @) \cup {action} |->
                                      IF x = action THEN u ELSE @[x]]]
                           ELSE acc1
               IN best_child_loop_last(ns, n, c, i + 1, acc2)

\* the for loop of lines 136-150, from child i on; acc holds the loop's locals
RECURSIVE best_child_loop(_, _, _, _, _)
best_child_loop(ns, n, c, i, acc) ==
  IF i > Len(ns[n].children) \/ acc.err # None THEN acc
  ELSE LET action == ns[n].children[i][1]
           child_node == ns[n].children[i][2]
       IN IF ns[child_node].num_visits = 0
          THEN [acc EXCEPT !.err = "ZeroDivisionError"]
          ELSE LET u == ucb_value(ns[child_node].num_wins, ns[child_node].num_visits,
                                  log(ns[n].num_visits), c)
                   better == u > acc.best_ucb_value
                   acc1 == IF better
                           THEN [acc EXCEPT !.best_ucb_value = u,
                                            !.best_child_node = child_node,
                                            !.best_action = action]
                           ELSE acc
                   acc2 == IF c = 0
                           THEN [acc1 EXCEPT !.action_ucb_table =
                                   [x \in (DOMAIN @) \cup {action} |->
                                      IF x = action THEN u ELSE @[x]]]
                           ELSE acc1
               IN best_child_loop(ns, n, c, i + 1, acc2)

\* minimax_close without lines 160-165: only the node itself is marked
minimax_close_self(ns, n) ==
  [ns EXCEPT ![n].is_minimax_terminal = TRUE,
             ![n].minimax_winner = Opponent(ns[n].state.player),
             ![n].num_wins = inf]

\* lines 153-167: the node is closed as lost for its mover
minimax_close(ns, n) ==
  LET ns1 == [ns EXCEPT ![n].is_minimax_terminal = TRUE,
                        ![n].minimax_winner = Opponent(ns[n].state.player),
                        ![n].num_wins = inf]
      p == ns[n].parent
  IN IF p # 0
     THEN [ns1 EXCEPT ![p].num_wins = -inf,
                      ![p].is_minimax_terminal = TRUE,
                      ![p].minimax_winner = ns[p].state.player]
     ELSE ns1

\* best_child whose closure branch returns (None, None, {}) when the children
\* list is empty instead of indexing it
best_child_none(ns, n, c) ==
  IF ns[n].num_visits = 0
  THEN [nodes |-> ns, child |-> 0, action |-> 0, table |-> EmptyMap,
        err |-> "ValueError", closed |-> FALSE]
  ELSE LET acc == best_child_loop(ns, n, c, 1,
                    [best_ucb_value |-> SENTINEL * SCALE, best_child_node |-> 0,
                     best_action |-> 0, action_ucb_table |-> EmptyMap, err |-> None])
       IN IF acc.err # None
          THEN [nodes |-> ns, child |-> 0, action |-> 0, table |-> EmptyMap,
                err |-> acc.err, closed |-> FALSE]
          ELSE IF acc.best_ucb_value = SENTINEL * SCALE
          THEN IF Len(ns[n].children) = 0
               THEN [nodes |-> minimax_close(ns, n), child |-> 0, action |-> 0,
                     table |-> EmptyMap, err |-> None, closed |-> TRUE]
               ELSE [nodes |-> minimax_close(ns, n),
                     child |-> ns[n].children[1][2], action |-> ns[n].children[1][1],
                     table |-> EmptyMap, err |-> None, closed |-> TRUE]
          ELSE [nodes |-> ns, child |-> acc.best_child_node, action |-> acc.best_action,
                table |-> acc.action_ucb_table, err |-> None, closed |-> FALSE]

\* result: the tree after the call, the returned triple, the exception raised
\* (None when the call returns) and whether the closure branch was taken
best_child(ns, n, c) ==
  IF ns[n].num_visits = 0
  THEN [nodes |-> ns, child |-> 0, action |-> 0, table |-> EmptyMap,
        err |-> "ValueError", closed |-> FALSE]
  ELSE LET acc == best_child_loop(ns, n, c, 1,
                    [best_ucb_value |-> SENTINEL * SCALE, best_child_node |-> 0,
                     best_action |-> 0, action_ucb_table |-> EmptyMap, err |-> None])
       IN IF acc.err # None
          THEN [nodes |-> ns, child |-> 0, action |-> 0, table |-> EmptyMap,
                err |-> acc.err, closed |-> FALSE]
          ELSE IF acc.best_ucb_value = SENTINEL * SCALE
          THEN IF Len(ns[n].children) = 0
               THEN [nodes |-> minimax_close(ns, n), child |-> 0, action |-> 0,
                     table |-> EmptyMap, err |-> "IndexError", closed |-> TRUE]
               ELSE [nodes |-> minimax_close(ns, n),
                     child |-> ns[n].children[1][2], action |-> ns[n].children[1][1],
                     table |-> EmptyMap, err |-> None, closed |-> TRUE]
          ELSE [nodes |-> ns, child |-> acc.best_child_node, action |-> acc.best_action,
                table |-> acc.action_ucb_table, err |-> None, closed |-> FALSE]

(***************************************************************************)
(* AI.expand                                                               *)
(***************************************************************************)
\* expand with pop() for pop(0) on line 112: the last untried action is taken
expand_last(ns, n) ==
  IF ns[n].is_terminal \/ ns[n].is_minimax_terminal
  THEN [nodes |-> ns, node |-> n, err |-> None]
  ELSE IF Len(ns[n].untried_actions) = 0
  THEN [nodes |-> ns, node |-> n, err |-> "IndexError"]
  ELSE LET k == Len(ns[n].untried_actions)
           action == ns[n].untried_actions[k]
           new_state == place(ns[n].state, action)
           child_node == Node(new_state, get_actions(new_state.grid), n)
           id == Len(ns) + 1
       IN [nodes |-> Append([ns EXCEPT ![n].untried_actions = SubSeq(@, 1, k - 1),
                                       ![n].children = Append(@, <<action, id>>)],
                            child_node),
           node |-> id, err |-> None]

\* expand without the guard of lines 108-109: a terminal or solved node grows
expand_always(ns, n) ==
  IF Len(ns[n].untried_actions) = 0
  THEN [nodes |-> ns, node |-> n,
        err |-> IF ns[n].is_terminal \/ ns[n].is_minimax_terminal
                THEN None ELSE "IndexError"]
  ELSE LET action == Head(ns[n].untried_actions)
           new_state == place(ns[n].state, action)
           child_node == Node(new_state, get_actions(new_state.grid), n)
           id == Len(ns) + 1
       IN [nodes |-> Append([ns EXCEPT ![n].untried_actions = Tail(@),
                                       ![n].children = Append(@, <<action, id>>)],
                            child_node),
           node |-> id, err |-> None]

expand(ns, n) ==
  IF ns[n].is_terminal \/ ns[n].is_minimax_terminal
  THEN [nodes |-> ns, node |-> n, err |-> None]
  ELSE IF Len(ns[n].untried_actions) = 0
  THEN [nodes |-> ns, node |-> n, err |-> "IndexError"]
  ELSE LET action == Head(ns[n].untried_actions)
           new_state == place(ns[n].state, action)
           child_node == Node(new_state, get_actions(new_state.grid), n)
           id == Len(ns) + 1
       IN [nodes |-> Append([ns EXCEPT ![n].untried_actions = Tail(@),
                                       ![n].children = Append(@, <<action, id>>)],
                            child_node),
           node |-> id, err |-> None]

(***************************************************************************)
(* AI.rollout: the ways the call can end (rand_move is random)              *)
(***************************************************************************)
\* lines 218-225 and 202-210: a dictionary with both players, or an empty one
reward_of(winner) ==
  IF winner = BLACK THEN [p \in Players |-> IF p = BLACK THEN 1 ELSE 0]
  ELSE IF winner = WHITE THEN [p \in Players |-> IF p = WHITE THEN 1 ELSE 0]
  ELSE EmptyMap

\* rollout without the shortcut of lines 203-210: a solved node is simulated
rollout_simulate(ns, n) ==
  {[reward |-> reward_of(r.winner), samples |-> r.samples] : r \in Playouts(ns[n].state)}

\* the returned reward and the number of rand_move samples of the call
rollout(ns, n) ==
  IF ns[n].is_minimax_terminal
  THEN {[reward |-> reward_of(ns[n].minimax_winner), samples |-> 0]}
  ELSE {[reward |-> reward_of(r.winner), samples |-> r.samples] : r \in Playouts(ns[n].state)}

(***************************************************************************)
(* AI.backpropagate                                                        *)
(***************************************************************************)
\* the walk with result[node.state[0]] for result[node.parent.state[0]] on
\* line 188: every node is credited with its own mover's reward
RECURSIVE backpropagate_walk_own(_, _, _)
backpropagate_walk_own(ns, n, result) ==
  IF n = 0 THEN [nodes |-> ns, err |-> None]
  ELSE LET ns1 == [ns EXCEPT ![n].num_visits = @ + 1]
           p == ns[n].parent
       IN IF p = 0 THEN backpropagate_walk_own(ns1, 0, result)
          ELSE IF ns[n].state.player \notin DOMAIN result
          THEN [nodes |-> ns1, err |-> "KeyError"]
          ELSE backpropagate_walk_own(
                 [ns1 EXCEPT ![n].num_wins = AddWins(@, result[ns[n].state.player])],
                 p, result)

\* the walk with `while node.parent is not None` on line 184: it stops below
\* the topmost node, which is never counted
RECURSIVE backpropagate_walk_stop(_, _, _)
backpropagate_walk_stop(ns, n, result) ==
  IF n = 0 THEN [nodes |-> ns, err |-> None]
  ELSE LET p == ns[n].parent
       IN IF p = 0 THEN [nodes |-> ns, err |-> None]
          ELSE IF ns[p].state.player \notin DOMAIN result
          THEN [nodes |-> [ns EXCEPT ![n].num_visits = @ + 1], err |-> "KeyError"]
          ELSE backpropagate_walk_stop(
                 [ns EXCEPT ![n].num_visits = @ + 1,
                            ![n].num_wins = AddWins(@, result[ns[p].state.player])],
                 p, result)

\* the while loop of lines 184-189, from node n on
RECURSIVE backpropagate_walk(_, _, _)
backpropagate_walk(ns, n, result) ==
  IF n = 0 THEN [nodes |-> ns, err |-> None]
  ELSE LET ns1 == [ns EXCEPT ![n].num_visits = @ + 1]
           p == ns[n].parent
       IN IF p = 0 THEN backpropagate_walk(ns1, 0, result)
          ELSE IF ns[p].state.player \notin DOMAIN result
          THEN [nodes |-> ns1, err |-> "KeyError"]
          ELSE backpropagate_walk(
                 [ns1 EXCEPT ![n].num_wins = AddWins(@, result[ns[p].state.player])],
                 p, result)

\* backpropagate without line 175: a terminal node keeps its counted wins
backpropagate_counted(ns, n, result) ==
  IF ns[n].is_terminal
  THEN LET p == ns[n].parent
       IN IF p = 0 THEN [nodes |-> ns, err |-> "AttributeError"]
          ELSE backpropagate_walk(
                 [ns EXCEPT ![p].num_wins = -inf,
                            ![p].is_minimax_terminal = TRUE,
                            ![p].minimax_winner = ns[p].state.player],
                 n, result)
  ELSE backpropagate_walk(ns, n, result)

\* backpropagate without line 179: the marked parent keeps its counted wins
backpropagate_unforced(ns, n, result) ==
  IF ns[n].is_terminal
  THEN LET ns1 == [ns EXCEPT ![n].num_wins = inf]
           p == ns[n].parent
       IN IF p = 0 THEN [nodes |-> ns1, err |-> "AttributeError"]
          ELSE backpropagate_walk(
                 [ns1 EXCEPT ![p].is_minimax_terminal = TRUE,
                             ![p].minimax_winner = ns[p].state.player],
                 n, result)
  ELSE backpropagate_walk(ns, n, result)

\* backpropagate with the opponent of the parent's mover on line 181
backpropagate_loser(ns, n, result) ==
  IF ns[n].is_terminal
  THEN LET ns1 == [ns EXCEPT ![n].num_wins = inf]
           p == ns[n].parent
       IN IF p = 0 THEN [nodes |-> ns1, err |-> "AttributeError"]
          ELSE backpropagate_walk(
                 [ns1 EXCEPT ![p].num_wins = -inf,
                             ![p].is_minimax_terminal = TRUE,
                             ![p].minimax_winner = Opponent(ns[p].state.player)],
                 n, result)
  ELSE backpropagate_walk(ns, n, result)

backpropagate(ns, n, result) ==
  IF ns[n].is_terminal
  THEN LET ns1 == [ns EXCEPT ![n].num_wins = inf]
           p == ns[n].parent
       IN IF p = 0 THEN [nodes |-> ns1, err |-> "AttributeError"]
          ELSE backpropagate_walk(
                 [ns1 EXCEPT ![p].num_wins = -inf,
                             ![p].is_minimax_terminal = TRUE,
                             ![p].minimax_winner = ns[p].state.player],
                 n, result)
  ELSE backpropagate_walk(ns, n, result)

(***************************************************************************)
(* AI.__init__                                                             *)
(***************************************************************************)
\* the for loop of lines 43-45: the last child whose board is the state's,
\* 0 when self.root is never assigned
RECURSIVE cached_child(_, _, _, _)
cached_child(ns, children, grid, found) ==
  IF children = << >> THEN found
  ELSE cached_child(ns, Tail(children), grid,
                    IF ns[Head(children)[2]].state.grid = grid
                    THEN Head(children)[2] ELSE found)

\* __init__ without the cache lookup: every decision gets a new root
AI_init_fresh(ns, saved, state) ==
  [nodes |-> Append(ns, Node(state, get_actions(state.grid), 0)),
   root |-> Len(ns) + 1]

AI_init(ns, saved, state) ==
  IF saved # 0
  THEN [nodes |-> ns, root |-> cached_child(ns, ns[saved].children, state.grid, 0)]
  ELSE [nodes |-> Append(ns, Node(state, get_actions(state.grid), 0)),
        root |-> Len(ns) + 1]

(***************************************************************************)
(* The program state.                                                      *)
(*   nodes, root, saved_root, BUDGET : the tree, self.root (0 = attribute  *)
(*     not set), the module-level cache slot (0 = None) and budget         *)
(*   pc, iters, node, result : position in mcts_search and its locals      *)
(*   samples : rand_move calls of the rollout whose result is pending      *)
(*   ret, err : what mcts_search returned, the exception that ended it     *)
(*   decisions, arg : number of AI objects constructed so far, the state   *)
(*     the last one was constructed with                                   *)
(*   startVisits, prevNodes, lastBC : history (root visits when the search *)
(*     started, the tree when the previous search returned, the last       *)
(*     best_child call)                                                    *)
(***************************************************************************)
VARIABLES nodes, root, saved_root, BUDGET, pc, iters, node, result, samples, ret, err,
          decisions, arg, startVisits, prevNodes, lastBC

vars == <<nodes, root, saved_root, BUDGET, pc, iters, node, result, samples, ret, err,
          decisions, arg, startVisits, prevNodes, lastBC>>

NoRet == [action |-> 0, table |-> EmptyMap]
NoBC == [node |-> 0, c |-> 0, child |-> 0, action |-> 0, closed |-> FALSE]

States == [player : Players, grid : Grids]

\* the states a caller passes to AI(state): any position for the first
\* decision, afterwards the position after the opponent's reply to the move
\* that was returned
OfferedStates ==
  IF saved_root = 0 THEN States
  ELSE {place(nodes[saved_root].state, a) : a \in
          IF game_over(nodes[saved_root].state.grid) THEN {}
          ELSE EmptyCells(nodes[saved_root].state.grid)}

Init ==
  /\ nodes = << >>
  /\ root = 0
  /\ saved_root = 0
  /\ BUDGET \in 0..MaxBudget
  /\ pc = "idle"
  /\ iters = 0
  /\ node = 0
  /\ result = EmptyMap
  /\ samples = 0
  /\ ret = NoRet
  /\ err = None
  /\ decisions = 0
  /\ arg = [player |-> BLACK, grid |-> << >>]
  /\ startVisits = 0
  /\ prevNodes = << >>
  /\ lastBC = NoBC

\* AI(state)
NewDecision ==
  /\ pc \in {"idle", "returned"}
  /\ decisions < MaxDecisions
  /\ \E state \in OfferedStates :
       LET r == AI_init(nodes, saved_root, state)
       IN /\ nodes' = r.nodes
          /\ root' = r.root
          /\ arg' = state
  /\ pc' = "constructed"
  /\ decisions' = decisions + 1
  /\ iters' = 0
  /\ node' = 0
  /\ result' = EmptyMap
  /\ samples' = 0
  /\ ret' = NoRet
  /\ lastBC' = NoBC
  /\ startVisits' = 0
  /\ UNCHANGED <<saved_root, BUDGET, err, prevNodes>>

\* mcts_search is called: lines 54-55
StartSearch ==
  /\ pc = "constructed"
  /\ pc' = "loop"
  /\ iters' = 0
  /\ startVisits' = IF root = 0 THEN 0 ELSE nodes[root].num_visits
  /\ UNCHANGED <<nodes, root, saved_root, BUDGET, node, result, samples, ret, err,
                 decisions, arg, prevNodes, lastBC>>

\* line 57 with the budget not used up, line 64: select starts at self.root
Iterate ==
  /\ pc = "loop"
  /\ iters < BUDGET
  /\ IF root = 0
     THEN /\ pc' = "error"
          /\ err' = "AttributeError"
          /\ node' = node
     ELSE /\ pc' = "select"
          /\ err' = err
          /\ node' = root
  /\ UNCHANGED <<nodes, root, saved_root, BUDGET, iters, result, samples, ret,
                 decisions, arg, startVisits, prevNodes, lastBC>>

\* the condition of select's while loop together with its break (lines 92-95)
select_continues(ns, n) ==
  /\ ~ns[n].is_terminal
  /\ ~ns[n].is_minimax_terminal
  /\ Len(ns[n].untried_actions) = 0

\* one pass of select's loop that descends (line 98)
SelectDescend ==
  /\ pc = "select"
  /\ select_continues(nodes, node)
  /\ LET r == best_child(nodes, node, 1)
     IN /\ nodes' = r.nodes
        /\ IF r.err # None
           THEN /\ pc' = "error"
                /\ err' = r.err
                /\ node' = node
                /\ lastBC' = lastBC
           ELSE /\ pc' = "select"
                /\ err' = err
                /\ node' = r.child
                /\ lastBC' = [node |-> node, c |-> 1, child |-> r.child,
                              action |-> r.action, closed |-> r.closed]
  /\ UNCHANGED <<root, saved_root, BUDGET, iters, result, samples, ret, decisions,
                 arg, startVisits, prevNodes>>

\* select returns (line 100) and expand runs on what it returned (line 66)
Expand ==
  /\ pc = "select"
  /\ ~select_continues(nodes, node)
  /\ LET r == expand(nodes, node)
     IN /\ nodes' = r.nodes
        /\ node' = r.node
        /\ IF r.err # None
           THEN pc' = "error" /\ err' = r.err
           ELSE pc' = "rollout" /\ err' = err
  /\ UNCHANGED <<root, saved_root, BUDGET, iters, result, samples, ret, decisions,
                 arg, startVisits, prevNodes, lastBC>>

\* line 68
Rollout ==
  /\ pc = "rollout"
  /\ \E r \in rollout(nodes, node) : result' = r.reward /\ samples' = r.samples
  /\ pc' = "backprop"
  /\ UNCHANGED <<nodes, root, saved_root, BUDGET, iters, node, ret, err,
                 decisions, arg, startVisits, prevNodes, lastBC>>

\* lines 70-72
Backpropagate ==
  /\ pc = "backprop"
  /\ LET r == backpropagate(nodes, node, result)
     IN /\ nodes' = r.nodes
        /\ IF r.err # None
           THEN pc' = "error" /\ err' = r.err /\ iters' = iters
           ELSE pc' = "loop" /\ err' = err /\ iters' = iters + 1
  /\ lastBC' = NoBC
  /\ samples' = 0
  /\ UNCHANGED <<root, saved_root, BUDGET, node, result, ret, decisions,
                 arg, startVisits, prevNodes>>

\* the result of lines 77-84 on tree ns with root rt: the tree, the cache slot,
\* the returned pair and the exception raised
mcts_finish(ns, rt, saved) ==
  IF rt = 0
  THEN [nodes |-> ns, saved_root |-> saved, ret |-> NoRet, err |-> "AttributeError",
        bc |-> NoBC]
  ELSE LET r == best_child(ns, rt, 0)
       IN IF r.err # None
          THEN [nodes |-> r.nodes, saved_root |-> saved, ret |-> NoRet, err |-> r.err,
                bc |-> NoBC]
          ELSE [nodes |-> r.nodes, saved_root |-> r.child,
                ret |-> [action |-> r.action, table |-> r.table], err |-> None,
                bc |-> [node |-> rt, c |-> 0, child |-> r.child, action |-> r.action,
                        closed |-> r.closed]]

\* line 57 with the budget used up, lines 77-84
Finish ==
  /\ pc = "loop"
  /\ iters >= BUDGET
  /\ LET r == mcts_finish(nodes, root, saved_root)
     IN /\ nodes' = r.nodes
        /\ saved_root' = r.saved_root
        /\ ret' = r.ret
        /\ lastBC' = r.bc
        /\ IF r.err # None
           THEN pc' = "error" /\ err' = r.err /\ prevNodes' = prevNodes
           ELSE pc' = "returned" /\ err' = err /\ prevNodes' = r.nodes
  /\ UNCHANGED <<root, BUDGET, iters, node, result, samples, decisions, arg, startVisits>>

Next ==
  \/ NewDecision
  \/ StartSearch
  \/ Iterate
  \/ SelectDescend
  \/ Expand
  \/ Rollout
  \/ Backpropagate
  \/ Finish

Spec == Init /\ [][Next]_vars

(***************************************************************************)
(* Properties.                                                             *)
(***************************************************************************)
Ended == pc \in {"returned", "error"}

\* the children of node n of tree ns, as a set of indices into its list
ChildIdx(ns, n) == 1..Len(ns[n].children)

\* the decision runs on a fresh root (empty cache) whose mover is BLACK and
\* whose first untried action wins the game for BLACK at once
FirstActionWins ==
  /\ decisions = 1
  /\ root # 0
  /\ arg.player = BLACK
  /\ ~game_over(arg.grid)
  /\ GameWinner(place(arg, get_actions(arg.grid)[1]).grid) = BLACK

\* C1: a decision from a fresh root whose first untried action wins at once
\* for BLACK, with BUDGET >= 2, returns, and the action it returns is that
\* first action.
C1_ReturnsWinningAction ==
  (FirstActionWins /\ BUDGET >= 2 /\ Ended)
    => (pc = "returned" /\ ret.action = get_actions(arg.grid)[1])

C1_Witness ==
  /\ FirstActionWins
  /\ BUDGET >= 2
  /\ pc = "returned"
  /\ Len(get_actions(arg.grid)) >= 2
  /\ ret.action = get_actions(arg.grid)[1]

\* C2 as stated: in the scenario of C1 the returned diagnostics hold the win
\* rate 1.0 for the winning action.
C2_Original ==
  (FirstActionWins /\ BUDGET >= 2 /\ pc = "returned")
    => /\ get_actions(arg.grid)[1] \in DOMAIN ret.table
       /\ ret.table[get_actions(arg.grid)[1]] = 1 * SCALE

\* C2 as amended: in the scenario of C1 the returned diagnostics hold an entry
\* for the winning action and its value is +infinity, the forced num_wins of
\* the terminal child divided by its visits.
C2_DiagnosticsInfinite ==
  (FirstActionWins /\ BUDGET >= 2 /\ pc = "returned")
    => /\ get_actions(arg.grid)[1] \in DOMAIN ret.table
       /\ ret.table[get_actions(arg.grid)[1]] = inf

C2_Witness ==
  /\ FirstActionWins
  /\ BUDGET >= 2
  /\ pc = "returned"
  /\ DOMAIN ret.table = {get_actions(arg.grid)[1]}
  /\ ret.table[get_actions(arg.grid)[1]] = inf

\* no child of the cached node has the board of the state AI was given
CacheMiss ==
  /\ saved_root # 0
  /\ \A i \in ChildIdx(nodes, saved_root) :
       nodes[nodes[saved_root].children[i][2]].state.grid # arg.grid

\* C3 as stated: when AI(state) is constructed with a non-empty cache none of
\* whose children has the state's board, self.root is a fresh node for the
\* state: no visits, no wins, no children, the oracle's actions untried.
C3_Original ==
  (pc = "constructed" /\ CacheMiss)
    => /\ root # 0
       /\ nodes[root] = Node(arg, get_actions(arg.grid), 0)

\* node n and its ancestors in tree ns
RECURSIVE Path(_, _)
Path(ns, n) == IF n = 0 THEN {} ELSE {n} \cup Path(ns, ns[n].parent)

\* node r and its descendants in tree ns
Subtree(ns, r) == {n \in 1..Len(ns) : r \in Path(ns, n)}

\* C4: when mcts_search has returned action a, saved_root is the root's child
\* reached by a; and when the next AI(state) finds a child of saved_root with
\* the state's board, self.root is that child and it and everything below it
\* (visits, wins, children, untried actions, solved-flags) is as it was when
\* the previous search returned.
C4_CachePromotion ==
  /\ pc = "returned" =>
       \E i \in ChildIdx(nodes, root) :
         nodes[root].children[i] = <<ret.action, saved_root>>
  /\ (pc = "constructed" /\ saved_root # 0 /\ ~CacheMiss) =>
       /\ root # 0
       /\ nodes[root].parent = saved_root
       /\ nodes[root].state.grid = arg.grid
       /\ \A n \in Subtree(nodes, root) :
            n \in 1..Len(prevNodes) /\ nodes[n] = prevNodes[n]

C4_Witness ==
  /\ pc = "constructed"
  /\ saved_root # 0
  /\ ~CacheMiss
  /\ root # 0
  /\ ~nodes[root].is_terminal
  /\ nodes[root].num_visits > 0
  /\ nodes[root].num_wins = 1
  /\ Len(nodes[root].untried_actions) > 0

\* C5 as stated: every decision ends after exactly BUDGET iterations, and
\* when mcts_search returns the root's visits have grown by exactly BUDGET.
C5_Original ==
  Ended =>
    /\ iters = BUDGET
    /\ pc = "returned" => nodes[root].num_visits = startVisits + BUDGET

\* C6 as stated: when mcts_search returns, the diagnostics have exactly one
\* entry per child of the root, and the entry is the child's wins / visits.
C6_Original ==
  pc = "returned" =>
    /\ DOMAIN ret.table = {nodes[root].children[i][1] : i \in ChildIdx(nodes, root)}
    /\ \A i \in ChildIdx(nodes, root) :
         LET a == nodes[root].children[i][1]
             ch == nodes[nodes[root].children[i][2]]
         IN IF ch.num_wins = inf \/ ch.num_wins = -inf
            THEN ret.table[a] = ch.num_wins
            ELSE /\ ret.table[a] * ch.num_visits <= ch.num_wins * SCALE
                 /\ ch.num_wins * SCALE < (ret.table[a] + 1) * ch.num_visits

\* C7: a search whose root has no children when the budget is used up raises
\* an exception and returns nothing; no search returns a move for a root
\* without children.
C7_NoChildrenIsAnError ==
  /\ [](pc = "returned" => (root # 0 /\ Len(nodes[root].children) > 0))
  /\ [][(pc = "loop" /\ iters >= BUDGET /\ root # 0 /\ Len(nodes[root].children) = 0)
          => (pc' = "error" /\ err' \in {"ValueError", "IndexError"}
              /\ ret' = NoRet /\ saved_root' = saved_root)]_vars

\* the budget was used up on a visited root without children, and the final
\* best_child raised
C7_Witness ==
  /\ pc = "error"
  /\ err = "IndexError"
  /\ root # 0
  /\ BUDGET >= 1
  /\ iters = BUDGET
  /\ Len(nodes[root].children) = 0
  /\ nodes[root].is_terminal

\* the score line 142 gives child i of node n with exploration constant c
Score(ns, n, i, c) ==
  ucb_value(ns[ns[n].children[i][2]].num_wins, ns[ns[n].children[i][2]].num_visits,
            log(ns[n].num_visits), c)

\* child i of node n has the greatest score, and no earlier child has it
FirstMax(ns, n, i, c) ==
  /\ \A j \in ChildIdx(ns, n) : Score(ns, n, j, c) <= Score(ns, n, i, c)
  /\ \A j \in 1..(i - 1) : Score(ns, n, j, c) < Score(ns, n, i, c)

\* best_child can be evaluated on node n and some child is above the floor
AboveFloor(ns, n, c) ==
  /\ ns[n].num_visits > 0
  /\ \A j \in ChildIdx(ns, n) : ns[ns[n].children[j][2]].num_visits > 0
  /\ \E j \in ChildIdx(ns, n) : Score(ns, n, j, c) > SENTINEL * SCALE

\* C8: for every node of the tree and every c in 0..2, when some child scores
\* above the sentinel, best_child returns the child and action of greatest
\* score, the earliest in the children list among equals; and the child the
\* last call of the search returned is that one.
C8_BestChildFirstMax ==
  /\ \A n \in 1..Len(nodes) : \A c \in 0..2 :
       AboveFloor(nodes, n, c) =>
         LET r == best_child(nodes, n, c)
         IN /\ r.err = None
            /\ ~r.closed
            /\ r.nodes = nodes
            /\ \E i \in ChildIdx(nodes, n) :
                 /\ nodes[n].children[i] = <<r.action, r.child>>
                 /\ FirstMax(nodes, n, i, c)
  /\ (lastBC.node # 0 /\ ~lastBC.closed) =>
       \E i \in ChildIdx(nodes, lastBC.node) :
         /\ nodes[lastBC.node].children[i] = <<lastBC.action, lastBC.child>>
         /\ FirstMax(nodes, lastBC.node, i, lastBC.c)

\* select has just descended to the first of two children with the same,
\* greatest, finite score
C8_Witness ==
  /\ pc = "select"
  /\ lastBC.node # 0
  /\ ~lastBC.closed
  /\ lastBC.c = 1
  /\ \E i, j \in ChildIdx(nodes, lastBC.node) :
       /\ i < j
       /\ nodes[lastBC.node].children[i][2] = lastBC.child
       /\ Score(nodes, lastBC.node, j, 1) = Score(nodes, lastBC.node, i, 1)
       /\ Score(nodes, lastBC.node, i, 1) < inf

\* the actions of the children of node n, in insertion order
RECURSIVE ChildActions(_)
ChildActions(children) ==
  IF children = << >> THEN << >>
  ELSE <<Head(children)[1]>> \o ChildActions(Tail(children))

\* C9: in every state, for every node, the actions of its children in
\* insertion order followed by its untried_actions are the oracle's ordered
\* legal actions of its state; and every expand on a node that is neither
\* terminal nor solved moves the head of untried_actions to the end of
\* children.
C9_FifoExpansion ==
  /\ [](\A n \in 1..Len(nodes) :
          ChildActions(nodes[n].children) \o nodes[n].untried_actions
            = get_actions(nodes[n].state.grid))
  /\ [][(pc = "select" /\ pc' = "rollout"
         /\ ~nodes[node].is_terminal /\ ~nodes[node].is_minimax_terminal)
          => /\ Len(nodes[node].untried_actions) > 0
             /\ nodes'[node].untried_actions = Tail(nodes[node].untried_actions)
             /\ nodes'[node].children =
                  Append(nodes[node].children,
                         <<Head(nodes[node].untried_actions), node'>>)
             /\ node' = Len(nodes) + 1
             /\ nodes'[node'].parent = node
             /\ \A n \in 1..Len(nodes) : n # node =>
                  /\ nodes'[n].children = nodes[n].children
                  /\ nodes'[n].untried_actions = nodes[n].untried_actions]_vars

\* three expansions of one node have made its first three legal actions its
\* children, in that order, and left the rest untried
C9_Witness ==
  \E n \in 1..Len(nodes) :
    /\ Len(nodes[n].children) = 3
    /\ Len(nodes[n].untried_actions) >= 1
    /\ ChildActions(nodes[n].children) = SubSeq(get_actions(nodes[n].state.grid), 1, 3)
    /\ pc = "rollout"
    /\ nodes[n].children[3][2] = node

\* num_wins of node n when the walk of backpropagate(nd, ...) starts: lines
\* 175 and 179 have forced it if nd is terminal and n is nd or nd's parent
WinsBeforeWalk(ns, nd, n) ==
  IF ns[nd].is_terminal /\ n = nd THEN inf
  ELSE IF ns[nd].is_terminal /\ n = ns[nd].parent THEN -inf
  ELSE ns[n].num_wins

\* C10: a backpropagate(node, reward) that returns has added 1 to num_visits
\* of every node from node up to the parentless top, and has added
\* reward[the parent's mover] to num_wins of each of them that has a parent.
C10_BackpropagateParentReward ==
  [][(pc = "backprop" /\ pc' = "loop")
       => \A n \in Path(nodes, node) :
            /\ nodes'[n].num_visits = nodes[n].num_visits + 1
            /\ nodes[n].parent # 0 =>
                 /\ nodes[nodes[n].parent].state.player \in DOMAIN result
                 /\ nodes'[n].num_wins =
                      AddWins(WinsBeforeWalk(nodes, node, n),
                              result[nodes[nodes[n].parent].state.player])]_vars

\* the first backpropagate of a search from a fresh root with WHITE to move:
\* the child (BLACK to move) was rolled out to a BLACK win, its num_wins is
\* still 0 and the root has one visit
C10_Witness ==
  /\ pc = "loop"
  /\ iters = 1
  /\ decisions = 1
  /\ Len(nodes) = 2
  /\ nodes[1].state.player = WHITE
  /\ nodes[2].state.player = BLACK
  /\ nodes[2].parent = 1
  /\ ~nodes[2].is_terminal
  /\ result = reward_of(BLACK)
  /\ nodes[2].num_wins = 0
  /\ nodes[2].num_visits = 1
  /\ nodes[1].num_visits = 1
  /\ nodes[1].num_wins = 0

\* every child of node n of tree ns has num_wins = -inf (none scores above
\* the sentinel), and best_child can be evaluated on n
AllChildrenLost(ns, n) ==
  /\ ns[n].num_visits > 0
  /\ Len(ns[n].children) > 0
  /\ \A j \in ChildIdx(ns, n) :
       /\ ns[ns[n].children[j][2]].num_visits > 0
       /\ ns[ns[n].children[j][2]].num_wins = -inf

\* C11: a best_child(node, 1) call of select on a node all of whose children
\* have num_wins = -inf leaves the node solved with minimax_winner the
\* opponent of its mover and num_wins = +inf, leaves its parent (if any)
\* solved with num_wins = -inf, and changes no other node.
C11_ClosureTwoLevels ==
  [][(pc = "select" /\ select_continues(nodes, node) /\ AllChildrenLost(nodes, node))
       => /\ pc' = "select"
          /\ lastBC'.closed
          /\ Len(nodes') = Len(nodes)
          /\ nodes'[node].is_minimax_terminal
          /\ nodes'[node].minimax_winner = Opponent(nodes[node].state.player)
          /\ nodes'[node].num_wins = inf
          /\ nodes[node].parent # 0 =>
               /\ nodes'[nodes[node].parent].is_minimax_terminal
               /\ nodes'[nodes[node].parent].num_wins = -inf
          /\ \A n \in 1..Len(nodes) :
               (n # node /\ n # nodes[node].parent) => nodes'[n] = nodes[n]]_vars

\* select has just closed a node that has a parent and a grandparent; the
\* grandparent is not solved
C11_Witness ==
  /\ pc = "select"
  /\ lastBC.closed
  /\ lastBC.c = 1
  /\ nodes[lastBC.node].num_wins = inf
  /\ nodes[lastBC.node].parent # 0
  /\ nodes[nodes[lastBC.node].parent].num_wins = -inf
  /\ nodes[nodes[lastBC.node].parent].parent # 0
  /\ ~nodes[nodes[nodes[lastBC.node].parent].parent].is_minimax_terminal

\* reward gives 1 to player p and 0 to the other player
FullWinFor(reward, p) ==
  /\ DOMAIN reward = Players
  /\ reward[p] = 1
  /\ reward[Opponent(p)] = 0

\* C12: the rollout that has just returned on a solved node took no rand_move
\* sample and gives 1 to its minimax_winner and 0 to the other player; on a
\* game-over node that is not solved it took no sample and gives 1 to the
\* winner the oracle records for the node's state and 0 to the other player.
C12_RolloutShortcuts ==
  pc = "backprop" =>
    /\ nodes[node].is_minimax_terminal =>
         /\ samples = 0
         /\ nodes[node].minimax_winner \in Players
         /\ FullWinFor(result, nodes[node].minimax_winner)
    /\ (nodes[node].is_terminal /\ ~nodes[node].is_minimax_terminal) =>
         /\ samples = 0
         /\ GameWinner(nodes[node].state.grid) \in Players =>
              FullWinFor(result, GameWinner(nodes[node].state.grid))

\* a rollout has just returned on a solved node whose position is still open
\* and one of whose children is a game-over node that was rolled out before
C12_Witness ==
  /\ pc = "backprop"
  /\ nodes[node].is_minimax_terminal
  /\ ~nodes[node].is_terminal
  /\ samples = 0
  /\ \E r \in Playouts(nodes[node].state) : r.samples > 0
  /\ \E j \in ChildIdx(nodes, node) :
       /\ nodes[nodes[node].children[j][2]].is_terminal
       /\ nodes[nodes[node].children[j][2]].num_visits > 0
       /\ GameWinner(nodes[nodes[node].children[j][2]].state.grid) \in Players

\* the step is a backpropagate of a game-over node with parent p
TerminalChildStep(p) ==
  /\ pc = "backprop"
  /\ nodes[node].is_terminal
  /\ nodes[node].parent = p

\* the step is a best_child call that closes a node with parent p
ClosingChildStep(p) ==
  /\ \/ pc = "select" /\ select_continues(nodes, node)
        /\ AllChildrenLost(nodes, node) /\ nodes[node].parent = p
     \/ pc = "loop" /\ iters >= BUDGET /\ root # 0
        /\ AllChildrenLost(nodes, root) /\ nodes[root].parent = p

\* C13 as stated: a node that is marked solved because a child is game-over
\* (backpropagate) or because a child closed (best_child) gets as
\* minimax_winner the opponent of its own mover.
C13_Original ==
  [][\A p \in 1..Len(nodes) :
       (TerminalChildStep(p) \/ ClosingChildStep(p))
         => /\ nodes'[p].is_minimax_terminal
            /\ nodes'[p].minimax_winner = Opponent(nodes[p].state.player)]_vars

\* C13 as amended: such a node gets as minimax_winner its own mover, and
\* num_wins = -inf: it is recorded as won by the player to move in it and lost
\* for the player who moves into it.
C13_ParentWinnerIsOwnMover ==
  [][\A p \in 1..Len(nodes) :
       (TerminalChildStep(p) \/ ClosingChildStep(p))
         => /\ nodes'[p].is_minimax_terminal
            /\ nodes'[p].minimax_winner = nodes[p].state.player
            /\ nodes'[p].num_wins = -inf]_vars

\* one node was marked through a game-over child and another through a
\* closed child
C13_Witness ==
  \E p, q \in 1..Len(nodes) :
    /\ nodes[p].is_minimax_terminal
    /\ nodes[p].num_wins = -inf
    /\ nodes[p].minimax_winner = nodes[p].state.player
    /\ \E j \in ChildIdx(nodes, p) :
         /\ nodes[nodes[p].children[j][2]].is_terminal
         /\ nodes[nodes[p].children[j][2]].num_wins = inf
    /\ nodes[q].is_minimax_terminal
    /\ nodes[q].num_wins = -inf
    /\ nodes[q].minimax_winner = nodes[q].state.player
    /\ \E j \in ChildIdx(nodes, q) :
         /\ ~nodes[nodes[q].children[j][2]].is_terminal
         /\ nodes[nodes[q].children[j][2]].is_minimax_terminal
         /\ nodes[nodes[q].children[j][2]].num_wins = inf

\* C14 as stated: every reward that rollout returns maps both players, one of
\* them to 1 and the other to 0.
C14_Original ==
  pc = "backprop" =>
    \E p \in Players : FullWinFor(result, p)

\* C15 as stated: the root of every decision has no parent, and a
\* backpropagate walk leaves root.num_wins as it was when the walk started and
\* changes no node outside the root's subtree.
C15_Original ==
  /\ [](root # 0 => nodes[root].parent = 0)
  /\ [][(pc = "backprop" /\ pc' = "loop")
          => /\ nodes'[root].num_wins = WinsBeforeWalk(nodes, node, root)
             /\ \A n \in 1..Len(nodes) :
                  n \notin Subtree(nodes, root) => nodes'[n] = nodes[n]]_vars

Frozen(ns, n) == ns[n].is_terminal \/ ns[n].is_minimax_terminal

\* C16: a node that is terminal or minimax-solved keeps its children and its
\* untried actions in every step; expand on such a node returns the node itself
\* and changes no node; and select descends only from a node that is neither
\* terminal nor solved at the top of the loop.
C16_SolvedNodesFrozen ==
  [][/\ \A n \in 1..Len(nodes) :
          Frozen(nodes, n)
            => /\ nodes'[n].children = nodes[n].children
               /\ nodes'[n].untried_actions = nodes[n].untried_actions
     /\ (pc = "select" /\ pc' = "rollout" /\ Frozen(nodes, node))
          => (node' = node /\ nodes' = nodes)
     /\ (pc = "select" /\ pc' = "select" /\ node' # node)
          => ~Frozen(nodes, node)]_vars

\* expand has just returned a solved node that still has untried actions
C16_Witness ==
  /\ pc = "rollout"
  /\ nodes[node].is_minimax_terminal
  /\ Len(nodes[node].untried_actions) > 0

Infinite(w) == w = inf \/ w = -inf

\* C17: a minimax-solved node stays solved in every later step, decisions that
\* start from the cache included; its num_wins is +inf or -inf and keeps its
\* value, and its minimax_winner is a player and keeps its value.
C17_SolvedIsPermanent ==
  /\ [](\A n \in 1..Len(nodes) :
          nodes[n].is_minimax_terminal
            => /\ Infinite(nodes[n].num_wins)
               /\ nodes[n].minimax_winner \in Players)
  /\ [][\A n \in 1..Len(nodes) :
          nodes[n].is_minimax_terminal
            => /\ nodes'[n].is_minimax_terminal
               /\ nodes'[n].num_wins = nodes[n].num_wins
               /\ nodes'[n].minimax_winner = nodes[n].minimax_winner]_vars

\* a solved node of the first decision is in the tree while a later decision,
\* started from the cache, has completed an iteration
C17_Witness ==
  /\ decisions = 2
  /\ pc = "loop"
  /\ iters > 0
  /\ root # 0
  /\ \E n \in 1..Len(prevNodes) : prevNodes[n].is_minimax_terminal

\* best_child is the next call: from select with c = 1 (line 98) or from
\* mcts_search with c = 0 (line 77)
CallsBestChild ==
  \/ pc = "select" /\ select_continues(nodes, node)
  \/ pc = "loop" /\ iters >= BUDGET /\ root # 0

CallNode == IF pc = "select" THEN node ELSE root

AllVisited(ns, n) ==
  /\ ns[n].num_visits > 0
  /\ \A j \in ChildIdx(ns, n) : ns[ns[n].children[j][2]].num_visits > 0

\* C18 as stated: at every call of best_child the node and all its children
\* have been visited, and no call takes log(0) or divides by zero.
C18_Original ==
  /\ CallsBestChild => AllVisited(nodes, CallNode)
  /\ pc = "error" => err \notin {"ValueError", "ZeroDivisionError"}

\* C18, amended: in a decision with BUDGET >= 1, at every call of best_child
\* (from select with c = 1 and from mcts_search with c = 0) the node passed in
\* and every child of it have num_visits > 0, and no call takes log(0) or
\* divides by zero.  With BUDGET = 0 the call of mcts_search is on a root
\* that was never visited.
C18_VisitedWhenBudgetPositive ==
  BUDGET >= 1 =>
    /\ CallsBestChild => AllVisited(nodes, CallNode)
    /\ pc = "error" => err \notin {"ValueError", "ZeroDivisionError"}

\* select has just called best_child with c = 1 on a visited node with two
\* visited children or more
C18_Witness ==
  /\ BUDGET >= 1
  /\ pc = "select"
  /\ lastBC.node # 0
  /\ lastBC.c = 1
  /\ Len(nodes[lastBC.node].children) >= 2
  /\ AllVisited(nodes, lastBC.node)

\* the value of the game at state by backward induction: the player who wins
\* under optimal play by both sides, EMPTY when that play ends without a winner
RECURSIVE Value(_)
Value(state) ==
  IF game_over(state.grid) THEN GameWinner(state.grid)
  ELSE LET vals == {Value(place(state, a)) : a \in EmptyCells(state.grid)}
       IN IF state.player \in vals THEN state.player
          ELSE IF EMPTY \in vals THEN EMPTY
          ELSE Opponent(state.player)

Solved(ns) == {n \in 1..Len(ns) : ns[n].is_minimax_terminal}

\* C19 as stated: the player recorded on every minimax-solved node wins the
\* game from the node's state under optimal play, and a node closed as
\* all-losing has no untried action left.
C19_Original ==
  \A n \in Solved(nodes) :
    /\ Value(nodes[n].state) = nodes[n].minimax_winner
    /\ nodes[n].num_wins = inf => nodes[n].untried_actions = << >>

\* the sum of num_visits over the children list of a node
RECURSIVE ChildVisits(_, _)
ChildVisits(ns, children) ==
  IF children = << >> THEN 0
  ELSE ns[Head(children)[2]].num_visits + ChildVisits(ns, Tail(children))

\* C20: between the iterations of a decision that started from a fresh root,
\* every node's num_visits is at least the sum of its children's num_visits,
\* the root's num_visits is the number of completed iterations, and every node
\* that has a parent and whose num_wins is not +/-inf has
\* 0 <= num_wins <= num_visits.
C20_StatisticsConsistent ==
  (pc = "loop" /\ decisions = 1 /\ root # 0)
    => /\ \A n \in 1..Len(nodes) :
            /\ nodes[n].num_visits >= ChildVisits(nodes, nodes[n].children)
            /\ (nodes[n].parent # 0 /\ ~Infinite(nodes[n].num_wins))
                 => (0 <= nodes[n].num_wins /\ nodes[n].num_wins <= nodes[n].num_visits)
       /\ nodes[root].num_visits = iters

\* four iterations are done from a fresh root: a grandchild exists, and some
\* node has won some but not all of its visits
C20_Witness ==
  /\ pc = "loop"
  /\ decisions = 1
  /\ root # 0
  /\ iters >= 4
  /\ \E n \in 1..Len(nodes) : nodes[n].parent # 0 /\ nodes[nodes[n].parent].parent # 0
  /\ \E n \in 1..Len(nodes) :
       /\ nodes[n].parent # 0
       /\ 0 < nodes[n].num_wins
       /\ nodes[n].num_wins < nodes[n].num_visits

====
